---- MODULE Spec2Model ----
(***************************************************************************)
(* Model of the cloud layer of rust-rocksdb (src/src/cloud).               *)
(*                                                                         *)
(*   Spec      lifetime of a configuration (CloudFileSystemOptions), of    *)
(*             the Cloud Engine Handle (CloudFileSystem) built from it and *)
(*             of the instances (CloudOptimisticTransactionDB) opened from *)
(*             the handle: Arc reference counts, Drop handlers, open and   *)
(*             close.                                                      *)
(*   SpecDb    the instances of one handle: open with its failure paths,   *)
(*             close, drop.                                                *)
(*   SpecCfg   threads calling the setters and getters of one shared       *)
(*             configuration through its mutex.                            *)
(*   SpecDesc  descriptors of one kind (CloudBucketOptions or              *)
(*             KafkaLogOptions): default, setters, clone, read_from_env,   *)
(*             drop.                                                       *)
(*   SpecEnv   read_from_env of one Bucket Descriptor over the process     *)
(*             environments.                                               *)
(*   SpecParse KafkaDebugContext::parse over strings of known and unknown  *)
(*             pieces.                                                     *)
(*   SpecKafka set_debug, and parse of the string set_debug serialized.    *)
(*   SpecOpenCfg  open_raw / open_cf_raw reading the cache path and size   *)
(*             while other threads call their setters.                     *)
(***************************************************************************)
EXTENDS Integers, Sequences, FiniteSets, TLC

\* ------------------------------------------------------------------ bounds
MaxCells == 2        \* Arc allocations of configurations ever made
MaxConfigs == 1      \* CloudFileSystemOptions::default() calls
MaxOptRefs == 2      \* CloudFileSystemOptions values held by the caller
MaxFsRefs == 2       \* CloudFileSystem values held by the caller
MaxInst == 1         \* CloudOptimisticTransactionDB values ever opened
MaxCloseCalls == 2   \* close() calls made on one instance
MaxCfs == 2          \* longest column-family list passed to open
MaxThreads == 2      \* threads calling into one shared configuration
MaxDescs == 2        \* descriptor values of one kind held by the caller
MaxEnv == 3          \* variables in the process environment
MaxTokens == 2       \* comma-separated pieces of a string given to parse
MaxContexts == 2     \* longest list of contexts given to set_debug

CellIds == 1..MaxCells
\* The kinds of CloudFileSystemOptions value: the cell its Arc points to, and
\* the default() call it descends from by clone.
OptKinds == [cell : CellIds, origin : CellIds]
InstIds == 1..MaxInst

\* Option<T>: None is the empty sequence, Some(v) the one-element sequence.
None == <<>>
Some(v) == <<v>>
UnwrapOr(o, d) == IF o = None THEN d ELSE o[1]

CachePaths == {"a"}
CacheSizes == {4}
LogLevels == {"Debug", "Info"}

VARIABLES
    cells,      \* the Arc<Mutex<CloudFileSystemOptionsWrapper>> allocations
    optRefs,    \* how many CloudFileSystemOptions values of each kind the caller holds
    fs,         \* the Arc<CloudFileSystemWrapper> allocation
    fsRefs,     \* how many CloudFileSystem values the caller holds
    lastNew,    \* what the last CloudFileSystem::new returned
    inst,       \* the CloudOptimisticTransactionDB values and their native handles
    lastOpen,   \* what the last open did and returned
    lastClose,  \* what the last close() did and returned
    alive,      \* FALSE once the process has aborted
    cfg,        \* the CloudFileSystemOptionsWrapper behind the mutex, field by field
    serial,     \* the same fields with every setter applied whole, in lock order
    lock,       \* the thread holding the configuration's mutex, 0 for none
    pc,         \* where each thread is in its call
    op,         \* the call each thread is in
    lastGet,    \* what the last getter returned
    kind,       \* the descriptor type of the run: "bucket" or "kafka"
    env,        \* the process environment, in the order std::env::vars() scans it
    dnat,       \* the native descriptor resources
    dval,       \* the caller's descriptor values: the native resource each wraps
    dexp,       \* what each value's getters returned after the last call made on it
    lastRead,   \* what the last read_from_env returned
    lastSetDebug, \* the last set_debug: its argument and the string the native setter got
    lastParse,  \* what the last KafkaDebugContext::parse was given and returned
    openPc,     \* where the thread in open_raw / open_cf_raw is
    openArgs,   \* the cache path and size it has read for the native open
    openSeen    \* the (path, size) states the configuration was in since its first read

lifeVars == <<cells, optRefs, fs, fsRefs, lastNew>>
instVars == <<inst, lastOpen, lastClose, alive>>
cfgVars == <<cfg, serial, lock, pc, op, lastGet>>
vars ==
    <<cells, optRefs, fs, fsRefs, lastNew, inst, lastOpen, lastClose, alive,
      cfg, serial, lock, pc, op, lastGet, kind, env, dnat, dval, dexp, lastRead,
      lastSetDebug, lastParse, openPc, openArgs, openSeen>>
descVars == <<kind, env, dnat, dval, dexp, lastRead>>
dbgVars == <<lastSetDebug, lastParse>>
raceVars == <<openPc, openArgs, openSeen>>
\* The variables a specification of one part leaves alone.
offLife == <<cfgVars, descVars, dbgVars, raceVars>>
offCfg == <<lifeVars, instVars, descVars, dbgVars, openPc, openArgs>>
offDesc == <<lifeVars, instVars, cfgVars, dbgVars, raceVars>>
offDbg == <<lifeVars, instVars, cfgVars, descVars, raceVars>>

\* ------------------------------------------------- CloudFileSystemOptions
\* A cell is one CloudFileSystemOptionsWrapper behind its Arc: rc is the Arc's
\* strong count, destroys counts rocksdb_cloud_fs_options_destroy calls.
FreeCell ==
    [state |-> "free", rc |-> 0, path |-> None, size |-> None,
     level |-> "Info", destroys |-> 0]

\* No CloudFileSystemOptions value.
NoRef == [cell |-> 0, origin |-> 0]

FreeCells(cs) == {c \in CellIds : cs[c].state = "free"}
MinOf(S) == CHOOSE x \in S : \A y \in S : x <= y

\* impl Default: a fresh native options resource in a fresh Arc.
DefaultOpts(cs, c) ==
    [cs EXCEPT ![c] = [FreeCell EXCEPT !.state = "live", !.rc = 1]]

\* A deep copy instead of a shared reference.
CloneOptsDeep(cs, ref) ==
    IF FreeCells(cs) = {}
    THEN [cells |-> [cs EXCEPT ![ref.cell].rc = @ + 1], ref |-> ref]
    ELSE LET f == MinOf(FreeCells(cs))
         IN [cells |-> [cs EXCEPT ![f] = [cs[ref.cell] EXCEPT !.rc = 1]],
             ref |-> [cell |-> f, origin |-> ref.origin]]

\* #[derive(Clone)] on CloudFileSystemOptions(Arc<..>): Arc::clone.
CloneOpts(cs, ref) ==
    [cells |-> [cs EXCEPT ![ref.cell].rc = @ + 1], ref |-> ref]

\* Dropping a CloudFileSystemOptions value: the Arc's count goes down, and at
\* zero Drop for CloudFileSystemOptionsWrapper destroys the native resource.
DropOpts(cs, ref) ==
    IF cs[ref.cell].rc = 1
    THEN [cs EXCEPT ![ref.cell] =
            [FreeCell EXCEPT !.state = "destroyed", !.destroys = cs[ref.cell].destroys + 1]]
    ELSE [cs EXCEPT ![ref.cell].rc = @ - 1]

set_persistent_cache_path(cs, ref, p) == [cs EXCEPT ![ref.cell].path = Some(p)]
set_persistent_cache_size_gb(cs, ref, s) == [cs EXCEPT ![ref.cell].size = Some(s)]
set_log_level(cs, ref, l) == [cs EXCEPT ![ref.cell].level = l]

persistent_cache_path(cs, ref) == cs[ref.cell].path
persistent_cache_size_gb(cs, ref) == cs[ref.cell].size
log_level(cs, ref) == cs[ref.cell].level

\* --------------------------------------------------------- CloudFileSystem
NoFs == [state |-> "none", rc |-> 0, opts |-> NoRef, destroys |-> 0]

\* A clone that does not count.
FsArcCloneUncounted(f) == f

\* #[derive(Clone)] on CloudFileSystem(Pin<Arc<..>>): Arc::clone.
FsArcClone(f) == [f EXCEPT !.rc = @ + 1]

\* Dropping a CloudFileSystem value. At count zero Drop for
\* CloudFileSystemWrapper runs rocksdb_cloud_fs_destroy, then the wrapper's
\* fields are dropped, its opts among them.
DropFs(f, cs) ==
    IF f.rc = 1
    THEN [fs |-> [state |-> "destroyed", rc |-> 0, opts |-> NoRef,
                  destroys |-> f.destroys + 1],
          cells |-> DropOpts(cs, f.opts)]
    ELSE [fs |-> [f EXCEPT !.rc = @ - 1], cells |-> cs]

\* What the last CloudFileSystem::new returned; setAfter records that a setter
\* has since been called on the configuration the handle was built from.
NoNew == [result |-> "none", error |-> "", native |-> "", setAfter |-> FALSE]
NativeErrors == {"IO error: bucket"}
GenericNewError == "Could not create cloud file system"

\* CloudFileSystem::new(opts) with the native create call's error (or "").
FsNew(cs, ref, nerr) ==
    IF nerr = ""
    THEN LET cl == CloneOpts(cs, ref)
         IN [fs |-> [state |-> "live", rc |-> 1, opts |-> cl.ref, destroys |-> 0],
             cells |-> cl.cells,
             ret |-> [NoNew EXCEPT !.result = "ok"]]
    ELSE [fs |-> NoFs, cells |-> cs,
          ret |-> [NoNew EXCEPT !.result = "err", !.error = GenericNewError,
                               !.native = nerr]]

\* ------------------------------------------- CloudOptimisticTransactionDB
DEFAULT_COLUMN_FAMILY_NAME == "default"
\* Column family names, all free of NUL bytes: CString::new(..).unwrap()
\* takes each as it is.
CfNames == {DEFAULT_COLUMN_FAMILY_NAME, "a"}
CfLists == UNION {[1..n -> CfNames] : n \in 0..MaxCfs}

\* What the native open call hands back: err is the error string it sets (""
\* for none), db whether the returned database pointer is non-null, handles
\* whether every column-family handle it filled in is non-null, txn and base
\* whether rocksdb_cloud_otxn_get_txn_db and
\* rocksdb_optimistictransactiondb_get_base_db return non-null.
\* An error comes with no database, and the sub-handles are those of a database.
NativeOpens ==
    {n \in [err : {""} \cup NativeErrors, db : BOOLEAN, handles : BOOLEAN,
            txn : BOOLEAN, base : BOOLEAN] :
        /\ n.err # "" => (~n.db /\ ~n.handles)
        /\ n.txn => n.db
        /\ n.base => n.txn}

\* The steps of one open that can fail: to_cpath, create_dir_all and the
\* native open. A step that fails ends the open, so the later steps have no
\* outcome of their own.
OpenRuns ==
    {r \in [pathOk : BOOLEAN, dirOk : BOOLEAN, nat : NativeOpens] :
        /\ ~r.pathOk => r.dirOk
        /\ (~r.pathOk \/ ~r.dirOk) =>
              r.nat = [err |-> "", db |-> FALSE, handles |-> FALSE,
                       txn |-> FALSE, base |-> FALSE]}

\* What the last open did: requested is the column-family list it was given,
\* call and names the native open it made and the names it passed.
NoOpen ==
    [result |-> "none", error |-> "", requested |-> <<>>, call |-> "none",
     names |-> <<>>, pcPath |-> "", pcSize |-> 0, db |-> FALSE, dbCloses |-> 0]

\* The default column family pushed without looking at the list.
WithDefaultAlways(cfs) == Append(cfs, DEFAULT_COLUMN_FAMILY_NAME)

\* "Always open the default column family."
WithDefault(cfs) ==
    IF \E k \in 1..Len(cfs) : cfs[k] = DEFAULT_COLUMN_FAMILY_NAME
    THEN cfs
    ELSE Append(cfs, DEFAULT_COLUMN_FAMILY_NAME)

\* open_cf_descriptors_internal, with open_raw / open_cf_raw inlined: the
\* native call made and its arguments, whether it returned a database
\* resource, how often open closed that resource, and the result.
open_cf_descriptors_internal(cfs, pathOk, dirOk, nat, path, size) ==
    LET given == [NoOpen EXCEPT !.requested = cfs]
        made == [given EXCEPT
                    !.call = IF cfs = <<>> THEN "rocksdb_cloud_otxn_open"
                             ELSE "rocksdb_cloud_otxn_open_column_families",
                    !.names = IF cfs = <<>> THEN <<>> ELSE WithDefault(cfs),
                    !.pcPath = UnwrapOr(path, ""),
                    !.pcSize = UnwrapOr(size, 0),
                    !.db = nat.db]
        Err(r, msg) == [r EXCEPT !.result = "err", !.error = msg]
    IN  IF ~pathOk THEN Err(given, "Failed to convert path to CString")
        ELSE IF ~dirOk THEN Err(given, "Failed to create RocksDB directory")
        ELSE IF nat.err # "" THEN Err(made, nat.err)
        ELSE IF cfs # <<>> /\ ~nat.handles
             THEN Err(made, "Received null column family handle from DB.")
        ELSE IF ~nat.db THEN Err(made, "Could not initialize database.")
        ELSE IF ~nat.txn
             THEN Err([made EXCEPT !.dbCloses = 1], "Could not initialize database.")
        ELSE IF ~nat.base
             THEN Err([made EXCEPT !.dbCloses = 1], "Could not initialize database.")
        ELSE [made EXCEPT !.result = "ok"]

\* One CloudOptimisticTransactionDB value. baseReleases and dbReleases count
\* the native releases of inner.base and inner.db, staleFlushes the flushes
\* issued on a base handle that was already released.
NoInst ==
    [state |-> "none", baseReleases |-> 0, dbReleases |-> 0, staleFlushes |-> 0,
     closeCalls |-> 0, flushFails |-> 0]

\* What the last close() did: before holds the release counts it found.
NoClose ==
    [inst |-> 0, result |-> "none", flush |-> "none", calls |-> <<>>,
     before |-> [baseReleases |-> 0, dbReleases |-> 0], priorFails |-> 0]

\* CloudOptimisticTransactionDBInner::flush: rocksdb_flush(self.base, ..).
InnerFlush(d) ==
    [d EXCEPT !.staleFlushes = IF d.baseReleases > 0 THEN @ + 1 ELSE @]

\* The two closes in the opposite order.
InnerCloseCallsSwapped ==
    <<"rocksdb_cloud_otxn_close", "rocksdb_optimistictransactiondb_close_base_db">>

\* CloudOptimisticTransactionDBInner::close: the native calls, in order.
InnerCloseCalls ==
    <<"rocksdb_optimistictransactiondb_close_base_db", "rocksdb_cloud_otxn_close">>

ApplyNativeClose(d, call) ==
    IF call = "rocksdb_optimistictransactiondb_close_base_db"
    THEN [d EXCEPT !.baseReleases = @ + 1]
    ELSE [d EXCEPT !.dbReleases = @ + 1]

InnerClose(d) ==
    ApplyNativeClose(ApplyNativeClose(d, InnerCloseCalls[1]), InnerCloseCalls[2])

\* close() that goes on after a failed flush.
DbCloseIgnoringFlush(d, outcome) ==
    [inst |-> InnerClose(InnerFlush(d)),
     calls |-> <<"rocksdb_flush">> \o InnerCloseCalls,
     result |-> IF outcome = "ok" THEN "ok" ELSE "err"]

\* CloudOptimisticTransactionDB::close: self.inner.flush()?; self.inner.close();
\* outcome is what rocksdb_flush does: "ok", "err" (it sets an error), or
\* "abort" (the process dies in it).
DbClose(d, outcome) ==
    IF outcome = "ok"
    THEN [inst |-> InnerClose(InnerFlush(d)),
          calls |-> <<"rocksdb_flush">> \o InnerCloseCalls,
          result |-> "ok"]
    ELSE [inst |-> InnerFlush(d), calls |-> <<"rocksdb_flush">>,
          result |-> IF outcome = "err" THEN "err" ELSE "abort"]

\* rocksdb_flush on a released base handle is a use after free: it may
\* return either way or kill the process.
FlushOutcomes(d) ==
    IF d.baseReleases = 0 THEN {"ok", "err"} ELSE {"ok", "err", "abort"}


\* --------------------------------- the configuration behind its mutex
Threads == 1..MaxThreads

\* A Bucket Descriptor by value.
InvalidBucket == [bucket_name |-> "", region |-> "", object_path |-> ""]
ValidBucket == [bucket_name |-> "b", region |-> "r", object_path |-> "p"]

\* CloudBucketOptions::is_valid: the native check, true when the three
\* fields are non-empty.
is_valid(b) == b.bucket_name # "" /\ b.region # "" /\ b.object_path # ""

\* The fields of the wrapper: the native options resource (src, dst, keep,
\* kafka) and the Rust fields beside it, as default() leaves them. torn holds
\* the fields that are in the middle of being written.
DefaultCfg ==
    [src |-> None, dst |-> None, keep |-> FALSE, kafka |-> None,
     path |-> None, size |-> None, level |-> "Info", torn |-> {}]

NoOp == [fn |-> "none", field |-> "none", value |-> None]
NoGet == [fn |-> "none", value |-> None, torn |-> FALSE, serial |-> None]

\* The setter calls, each with the field it writes and the value it leaves.
SetterOps ==
    {[fn |-> "set_src_bucket", field |-> "src", value |-> Some(b)] :
        b \in {InvalidBucket, ValidBucket}}
    \cup {[fn |-> "set_dst_bucket", field |-> "dst", value |-> Some(ValidBucket)],
          [fn |-> "set_keep_local_sst_files", field |-> "keep", value |-> TRUE],
          [fn |-> "set_kafka_log", field |-> "kafka", value |-> Some("broker:9092")]}
    \cup {[fn |-> "set_persistent_cache_path", field |-> "path", value |-> Some(x)] :
            x \in CachePaths}
    \cup {[fn |-> "set_persistent_cache_size_gb", field |-> "size", value |-> Some(x)] :
            x \in CacheSizes}
    \cup {[fn |-> "set_log_level", field |-> "level", value |-> "Debug"]}

GetterOps ==
    {[fn |-> "persistent_cache_path", field |-> "path", value |-> None],
     [fn |-> "persistent_cache_size_gb", field |-> "size", value |-> None],
     [fn |-> "log_level", field |-> "level", value |-> None]}

\* A setter applied whole.
ApplySetter(c, o) == [c EXCEPT ![o.field] = o.value, !.torn = @ \ {o.field}]

\* The persistent cache path and size of one state of the configuration.
CacheState(c) == [path |-> c.path, size |-> c.size]

\* A lock that does not wait.
CanLockAlways(l) == TRUE

\* self.0.lock(): returns once no thread holds the mutex.
CanLock(l) == l = 0

\* ------------------------------------ CloudBucketOptions, KafkaLogOptions
BUCKET_DEFAULT_ENV_PREFIX == "ROCKSDB_CLOUD"
KAFKA_DEFAULT_ENV_PREFIX == "ROCKSDB_CLOUD_KAFKA_LOG"

Kinds == {"bucket", "kafka"}
Fields(k) ==
    IF k = "bucket" THEN {"bucket_name", "region", "object_path"} ELSE {"broker_list"}

\* The suffix read_from_env appends to the prefix for each field.
Suffix(f) ==
    CASE f = "bucket_name" -> "_BUCKET_NAME"
      [] f = "region" -> "_REGION"
      [] f = "object_path" -> "_OBJECT_PATH"
      [] f = "broker_list" -> "_BROKER_LIST"

\* format!("{env_prefix}_<FIELD>")
EnvKey(prefix, f) == prefix \o Suffix(f)

\* A key or value of the environment that is not valid Unicode.
NonUnicode == "<not unicode>"
IsUnicode(x) == x # NonUnicode

EnvPrefixes == {BUCKET_DEFAULT_ENV_PREFIX, "P"}
EnvEntries ==
    [key : {EnvKey(BUCKET_DEFAULT_ENV_PREFIX, f) : f \in Fields("bucket")}
             \cup {EnvKey("P", "region"), "HOME"},
     value : {"e"}]
    \cup {[key |-> "HOME", value |-> NonUnicode]}

\* The environments: up to n variables with distinct names, in every order
\* the scan can meet them.
RECURSIVE EnvsUpTo(_)
EnvsUpTo(n) ==
    IF n = 0 THEN {<<>>}
    ELSE LET shorter == EnvsUpTo(n - 1)
         IN shorter \cup
            {Append(e, x) : e \in {y \in shorter : Len(y) = n - 1},
                            x \in EnvEntries}

DistinctKeys(e) == \A a, b \in 1..Len(e) : a # b => e[a].key # e[b].key
Envs == {e \in EnvsUpTo(MaxEnv) : DistinctKeys(e)}

\* getenv: the value of the variable named key, None when it is not set.
EnvLookup(e, key) ==
    IF \E a \in 1..Len(e) : e[a].key = key
    THEN Some(e[CHOOSE a \in 1..Len(e) : e[a].key = key].value)
    ELSE None

DescIds == 1..MaxDescs
\* One native resource more than values: default() holds two for a moment.
NatIds == 1..(MaxDescs + 1)

EmptyFields(k) == [f \in Fields(k) |-> ""]
FreeNat(k) == [state |-> "free", rc |-> 0, f |-> EmptyFields(k)]
FreeNats(n) == {i \in NatIds : n[i].state = "free"}

\* rocksdb_cloud_bucket_options_create / rocksdb_cloud_kafka_log_options_create
NatCreate(k, n, i) == [n EXCEPT ![i] = [state |-> "live", rc |-> 1, f |-> EmptyFields(k)]]

\* impl Clone for CloudBucketOptions: rocksdb_cloud_bucket_options_create_copy,
\* a new native resource with the same contents.
BucketClone(n, i) ==
    LET c == MinOf(FreeNats(n))
    IN [nat |-> [n EXCEPT ![c] = [state |-> "live", rc |-> 1, f |-> n[i].f]], id |-> c]

\* #[derive(Clone)] on KafkaLogOptions(Pin<Arc<..>>): Arc::clone, the same
\* native resource.
KafkaClone(n, i) == [nat |-> [n EXCEPT ![i].rc = @ + 1], id |-> i]

DescClone(k, n, i) == IF k = "bucket" THEN BucketClone(n, i) ELSE KafkaClone(n, i)

\* Drop for CloudBucketOptions destroys the native resource; dropping a
\* KafkaLogOptions lowers the Arc's count and Drop for KafkaLogOptionsWrapper
\* destroys it at zero.
DescDropNat(k, n, i) ==
    IF n[i].rc = 1 THEN [n EXCEPT ![i] = FreeNat(k)] ELSE [n EXCEPT ![i].rc = @ - 1]

\* set_bucket_name / set_region / set_object_path / set_broker_list: the
\* native setter on self.inner (self.0.inner).
DescSet(n, i, f, v) == [n EXCEPT ![i].f[f] = v]

\* get_bucket_name / get_region / get_object_path / get_broker_list
DescGet(n, i) == n[i].f

\* The closure of read_from_env on one variable; std::env::vars() panics on
\* a key or value that is not valid Unicode.
ScanStep(k, st, prefix, e) ==
    IF ~IsUnicode(e.key) \/ ~IsUnicode(e.value)
    THEN [st EXCEPT !.status = "panic"]
    ELSE IF \E f \in Fields(k) : e.key = EnvKey(prefix, f)
    THEN LET f == CHOOSE g \in Fields(k) : e.key = EnvKey(prefix, g)
         IN [st EXCEPT !.nat = DescSet(st.nat, st.id, f, e.value)]
    ELSE st

RECURSIVE Scan(_, _, _, _)
Scan(k, st, prefix, e) ==
    IF e = <<>> \/ st.status = "panic" THEN st
    ELSE Scan(k, ScanStep(k, st, prefix, Head(e)), prefix, Tail(e))

\* read_from_env: clone self, scan the environment, return the clone. A
\* panic unwinds through the clone, which is dropped.
read_from_env(k, n, i, prefix, e) ==
    LET cl == DescClone(k, n, i)
        st == Scan(k, [status |-> "ok", nat |-> cl.nat, id |-> cl.id], prefix, e)
    IN IF st.status = "ok" THEN st
       ELSE [st EXCEPT !.nat = DescDropNat(k, st.nat, st.id), !.id = 0]

\* What read_from_env is to return for a descriptor with contents d: the
\* variable's value where <prefix>_<FIELD> is set, d's own value elsewhere.
EnvOverlay(k, d, prefix, e) ==
    [f \in Fields(k) |-> UnwrapOr(EnvLookup(e, EnvKey(prefix, f)), d[f])]

DefaultPrefix(k) ==
    IF k = "bucket" THEN BUCKET_DEFAULT_ENV_PREFIX ELSE KAFKA_DEFAULT_ENV_PREFIX

NoRead == [status |-> "none", prefix |-> "", src |-> 0, dst |-> 0]
SetterArgs == {"x"}


\* ------------------------------------------------------ KafkaDebugContext
\* A string is the sequence of its characters.
KafkaDebugContext ==
    {"All", "Generic", "Broker", "Topic", "Metadata", "Queue", "Msg", "Protocol", "Cgrp", "Security", "Fetch", "Feature"}

\* KafkaDebugContext::as_str
as_str(c) ==
    CASE c = "All" -> <<"a", "l", "l">>
      [] c = "Generic" -> <<"g", "e", "n", "e", "r", "i", "c">>
      [] c = "Broker" -> <<"b", "r", "o", "k", "e", "r">>
      [] c = "Topic" -> <<"t", "o", "p", "i", "c">>
      [] c = "Metadata" -> <<"m", "e", "t", "a", "d", "a", "t", "a">>
      [] c = "Queue" -> <<"q", "u", "e", "u", "e">>
      [] c = "Msg" -> <<"m", "s", "g">>
      [] c = "Protocol" -> <<"p", "r", "o", "t", "o", "c", "o", "l">>
      [] c = "Cgrp" -> <<"c", "g", "r", "p">>
      [] c = "Security" -> <<"s", "e", "c", "u", "r", "i", "t", "y">>
      [] c = "Fetch" -> <<"f", "e", "t", "c", "h">>
      [] c = "Feature" -> <<"f", "e", "a", "t", "u", "r", "e">>

\* The match of parse on one token: the variant, or None for the `_` arm.
MatchToken(t) ==
    CASE t = <<"a", "l", "l">> -> Some("All")
      [] t = <<"g", "e", "n", "e", "r", "i", "c">> -> Some("Generic")
      [] t = <<"b", "r", "o", "k", "e", "r">> -> Some("Broker")
      [] t = <<"t", "o", "p", "i", "c">> -> Some("Topic")
      [] t = <<"m", "e", "t", "a", "d", "a", "t", "a">> -> Some("Metadata")
      [] t = <<"q", "u", "e", "u", "e">> -> Some("Queue")
      [] t = <<"m", "s", "g">> -> Some("Msg")
      [] t = <<"p", "r", "o", "t", "o", "c", "o", "l">> -> Some("Protocol")
      [] t = <<"c", "g", "r", "p">> -> Some("Cgrp")
      [] t = <<"s", "e", "c", "u", "r", "i", "t", "y">> -> Some("Security")
      [] t = <<"f", "e", "t", "c", "h">> -> Some("Fetch")
      [] t = <<"f", "e", "a", "t", "u", "r", "e">> -> Some("Feature")
      [] OTHER -> None

\* str::split(','): the pieces between the commas, one piece for a string
\* with no comma, the empty string included.
RECURSIVE SplitFrom(_, _, _)
SplitFrom(s, piece, done) ==
    IF s = <<>> THEN Append(done, piece)
    ELSE IF Head(s) = ","
         THEN SplitFrom(Tail(s), <<>>, Append(done, piece))
         ELSE SplitFrom(Tail(s), Append(piece, Head(s)), done)

Split(s) == SplitFrom(s, <<>>, <<>>)

\* [&str]::join(","): the empty string for the empty list.
RECURSIVE Join(_)
Join(l) ==
    IF l = <<>> THEN <<>>
    ELSE IF Len(l) = 1 THEN l[1]
    ELSE l[1] \o <<",">> \o Join(Tail(l))

\* KafkaDebugContext::parse: split on commas and map every piece through the
\* match; the `_` arm panics with the piece.
parse(s) ==
    LET pieces == Split(s)
        bad == {k \in 1..Len(pieces) : MatchToken(pieces[k]) = None}
    IN IF bad = {}
       THEN [status |-> "ok", value |-> [k \in 1..Len(pieces) |-> MatchToken(pieces[k])[1]],
             token |-> <<>>]
       ELSE [status |-> "panic", value |-> <<>>, token |-> pieces[MinOf(bad)]]

\* set_debug: the as_str of every context, joined with commas, handed to
\* rocksdb_cloud_kafka_log_options_set_debug.
set_debug(contexts) == Join([k \in 1..Len(contexts) |-> as_str(contexts[k])])

NoSetDebug == [called |-> FALSE, contexts |-> <<>>, sent |-> <<>>]
NoParse ==
    [status |-> "none", of |-> "none", tokens |-> <<>>, contexts |-> <<>>,
     value |-> <<>>, token |-> <<>>]

\* ------------------------------------------------------------------ state
\* The threads of SpecCfg, before any call.
CfgIdle ==
    /\ cfg = DefaultCfg
    /\ serial = DefaultCfg
    /\ lock = 0
    /\ pc = [t \in Threads |-> "idle"]
    /\ op = [t \in Threads |-> NoOp]
    /\ lastGet = NoGet

\* No set_debug and no parse yet.
DbgIdle ==
    /\ lastSetDebug = NoSetDebug
    /\ lastParse = NoParse

\* No thread is in open_raw / open_cf_raw.
NoArgs == [path |-> "", size |-> 0]
OpenIdle ==
    /\ openPc = "idle"
    /\ openArgs = NoArgs
    /\ openSeen = {}

\* No descriptor yet, in an empty environment.
DescIdle ==
    /\ kind = "bucket"
    /\ env = <<>>
    /\ dnat = [i \in NatIds |-> FreeNat("bucket")]
    /\ dval = [v \in DescIds |-> 0]
    /\ dexp = [v \in DescIds |-> EmptyFields("bucket")]
    /\ lastRead = NoRead

Init ==
    /\ CfgIdle
    /\ DbgIdle
    /\ OpenIdle
    /\ DescIdle
    /\ cells = [c \in CellIds |-> FreeCell]
    /\ optRefs = [k \in OptKinds |-> 0]
    /\ fs = NoFs
    /\ fsRefs = 0
    /\ lastNew = NoNew
    /\ inst = [i \in InstIds |-> NoInst]
    /\ lastOpen = NoOpen
    /\ lastClose = NoClose
    /\ alive = TRUE

RECURSIVE SumOver(_, _)
SumOver(f, S) ==
    IF S = {} THEN 0
    ELSE LET x == CHOOSE y \in S : TRUE IN f[x] + SumOver(f, S \ {x})

NumOptRefs == SumOver(optRefs, OptKinds)
FreeInsts == {i \in InstIds : inst[i].state = "none"}

\* CloudFileSystemOptions::default()
OptsDefault ==
    /\ alive
    /\ NumOptRefs < MaxOptRefs /\ FreeCells(cells) # {}
    /\ Cardinality({c \in CellIds : cells[c].state # "free"}) < MaxConfigs
    /\ LET c == MinOf(FreeCells(cells))
       IN /\ cells' = DefaultOpts(cells, c)
          /\ optRefs' = [optRefs EXCEPT ![[cell |-> c, origin |-> c]] = @ + 1]
    /\ UNCHANGED <<fs, fsRefs, lastNew, instVars, offLife>>

\* opts.clone(), of a value the caller holds or of handle.opts()
OptsClone(src) ==
    /\ alive
    /\ NumOptRefs < MaxOptRefs
    /\ LET cl == CloneOpts(cells, src)
       IN /\ cells' = cl.cells
          /\ optRefs' = [optRefs EXCEPT ![cl.ref] = @ + 1]
    /\ UNCHANGED <<fs, fsRefs, lastNew, instVars, offLife>>

\* a CloudFileSystemOptions value goes out of scope
OptsDrop(k) ==
    /\ alive
    /\ optRefs[k] > 0
    /\ cells' = DropOpts(cells, k)
    /\ optRefs' = [optRefs EXCEPT ![k] = @ - 1]
    /\ UNCHANGED <<fs, fsRefs, lastNew, instVars, offLife>>

NoteSetter(ref) ==
    IF fs.state = "live" /\ ref.origin = fs.opts.origin
    THEN [lastNew EXCEPT !.setAfter = TRUE]
    ELSE lastNew

SetPersistentCachePath(k, p) ==
    /\ alive
    /\ optRefs[k] > 0
    /\ cells' = set_persistent_cache_path(cells, k, p)
    /\ lastNew' = NoteSetter(k)
    /\ UNCHANGED <<optRefs, fs, fsRefs, instVars, offLife>>

SetPersistentCacheSizeGb(k, s) ==
    /\ alive
    /\ optRefs[k] > 0
    /\ cells' = set_persistent_cache_size_gb(cells, k, s)
    /\ lastNew' = NoteSetter(k)
    /\ UNCHANGED <<optRefs, fs, fsRefs, instVars, offLife>>

SetLogLevel(k, l) ==
    /\ alive
    /\ optRefs[k] > 0
    /\ cells' = set_log_level(cells, k, l)
    /\ lastNew' = NoteSetter(k)
    /\ UNCHANGED <<optRefs, fs, fsRefs, instVars, offLife>>

\* CloudFileSystem::new(&opts)
NewFs(k, nerr) ==
    /\ alive
    /\ fs.state = "none"
    /\ optRefs[k] > 0
    /\ LET n == FsNew(cells, k, nerr)
       IN /\ fs' = n.fs
          /\ cells' = n.cells
          /\ lastNew' = n.ret
          /\ fsRefs' = IF n.ret.result = "ok" THEN fsRefs + 1 ELSE fsRefs
    /\ UNCHANGED <<optRefs, instVars, offLife>>

\* cloud_fs.clone()
CloneFs ==
    /\ alive
    /\ fsRefs > 0 /\ fsRefs < MaxFsRefs
    /\ fs' = FsArcClone(fs)
    /\ fsRefs' = fsRefs + 1
    /\ UNCHANGED <<cells, optRefs, lastNew, instVars, offLife>>

\* a CloudFileSystem value goes out of scope
FsDrop ==
    /\ alive
    /\ fsRefs > 0
    /\ LET d == DropFs(fs, cells)
       IN fs' = d.fs /\ cells' = d.cells
    /\ fsRefs' = fsRefs - 1
    /\ UNCHANGED <<optRefs, lastNew, instVars, offLife>>

\* CloudOptimisticTransactionDB::open / open_cf / open_cf_descriptors
Open(cfs, pathOk, dirOk, nat) ==
    /\ alive
    /\ fsRefs > 0
    /\ FreeInsts # {}
    /\ LET r == open_cf_descriptors_internal(cfs, pathOk, dirOk, nat,
                    persistent_cache_path(cells, fs.opts),
                    persistent_cache_size_gb(cells, fs.opts))
       IN /\ lastOpen' = r
          /\ IF r.result = "ok"
             THEN /\ inst' = [inst EXCEPT ![MinOf(FreeInsts)].state = "live"]
                  /\ fs' = FsArcClone(fs)
             ELSE UNCHANGED <<inst, fs>>
    /\ UNCHANGED <<cells, optRefs, fsRefs, lastNew, lastClose, alive, offLife>>

\* db.close()
Close(i, outcome) ==
    /\ alive
    /\ inst[i].state = "live"
    /\ inst[i].closeCalls < MaxCloseCalls
    /\ outcome \in FlushOutcomes(inst[i])
    /\ LET r == DbClose(inst[i], outcome)
       IN /\ inst' = [inst EXCEPT ![i] =
                        [r.inst EXCEPT !.closeCalls = @ + 1,
                                       !.flushFails = IF r.result = "err" THEN @ + 1 ELSE @]]
          /\ lastClose' = [inst |-> i, result |-> r.result, flush |-> outcome,
                           calls |-> r.calls,
                           before |-> [baseReleases |-> inst[i].baseReleases,
                                       dbReleases |-> inst[i].dbReleases],
                           priorFails |-> inst[i].flushFails]
          /\ alive' = (r.result # "abort")
    /\ UNCHANGED <<lifeVars, lastOpen, offLife>>

\* a CloudOptimisticTransactionDB value goes out of scope: its _cloud_fs
\* field is dropped (CloudOptimisticTransactionDBInner has no Drop of its own)
DbDrop(i) ==
    /\ alive
    /\ inst[i].state = "live"
    /\ inst' = [inst EXCEPT ![i].state = "dropped"]
    /\ LET d == DropFs(fs, cells)
       IN fs' = d.fs /\ cells' = d.cells
    /\ UNCHANGED <<optRefs, fsRefs, lastNew, lastOpen, lastClose, alive, offLife>>

\* The native open calls that succeed or report an error, for runs that are
\* about lifetimes and not about open's failure paths.
PlainOpens ==
    {r \in OpenRuns :
        /\ r.pathOk /\ r.dirOk
        /\ r.nat.err # "" \/ (r.nat.db /\ r.nat.handles /\ r.nat.txn /\ r.nat.base)}

Next ==
    \/ OptsDefault
    \/ \E k \in OptKinds : optRefs[k] > 0 /\ OptsClone(k)
    \/ fs.state = "live" /\ OptsClone(fs.opts)
    \/ \E k \in OptKinds : OptsDrop(k)
    \/ \E k \in OptKinds, p \in CachePaths : SetPersistentCachePath(k, p)
    \/ \E k \in OptKinds, s \in CacheSizes : SetPersistentCacheSizeGb(k, s)
    \/ \E k \in OptKinds, l \in LogLevels : SetLogLevel(k, l)
    \/ \E k \in OptKinds, e \in {""} \cup NativeErrors : NewFs(k, e)
    \/ CloneFs
    \/ FsDrop
    \/ \E r \in PlainOpens : Open(<<>>, r.pathOk, r.dirOk, r.nat)
    \/ \E i \in InstIds : DbDrop(i)

\* Lifetimes: configurations, the handle, its clones and the instances.
Spec == Init /\ [][Next]_vars

\* A handle built from a configuration, held by the caller; nothing opened.
InitDb ==
    /\ CfgIdle
    /\ DbgIdle
    /\ OpenIdle
    /\ DescIdle
    /\ \E p \in {None} \cup {Some(x) : x \in CachePaths},
          s \in {None} \cup {Some(x) : x \in CacheSizes} :
          cells = [c \in CellIds |->
                     IF c = 1
                     THEN [FreeCell EXCEPT !.state = "live", !.rc = 2,
                                           !.path = p, !.size = s]
                     ELSE FreeCell]
    /\ optRefs = [k \in OptKinds |-> IF k = [cell |-> 1, origin |-> 1] THEN 1 ELSE 0]
    /\ fs = [state |-> "live", rc |-> 1, opts |-> [cell |-> 1, origin |-> 1],
             destroys |-> 0]
    /\ fsRefs = 1
    /\ lastNew = [NoNew EXCEPT !.result = "ok"]
    /\ inst = [i \in InstIds |-> NoInst]
    /\ lastOpen = NoOpen
    /\ lastClose = NoClose
    /\ alive = TRUE

NextDb ==
    \/ \E cfs \in CfLists, r \in OpenRuns : Open(cfs, r.pathOk, r.dirOk, r.nat)
    \/ \E i \in InstIds, o \in {"ok", "err", "abort"} : Close(i, o)
    \/ \E i \in InstIds : DbDrop(i)

\* Instances of one handle: open, close, drop.
SpecDb == InitDb /\ [][NextDb]_vars

\* A setter starts: self.0.lock().unwrap(), a temporary that lives to the end
\* of the statement.
SetterLock(t, o) ==
    /\ pc[t] = "idle"
    /\ CanLock(lock)
    /\ lock' = t
    /\ pc' = [pc EXCEPT ![t] = "locked"]
    /\ op' = [op EXCEPT ![t] = o]
    /\ serial' = ApplySetter(serial, o)
    /\ UNCHANGED <<cfg, lastGet, openSeen, offCfg>>

\* The field write, or the native call that copies the argument in, begins.
SetterWrite(t) ==
    /\ pc[t] = "locked"
    /\ cfg' = [cfg EXCEPT !.torn = @ \cup {op[t].field}]
    /\ pc' = [pc EXCEPT ![t] = "writing"]
    /\ UNCHANGED <<serial, lock, op, lastGet, openSeen, offCfg>>

\* The write is complete; the statement ends and the guard is dropped.
SetterReturn(t) ==
    /\ pc[t] = "writing"
    /\ cfg' = ApplySetter(cfg, op[t])
    /\ lock' = 0
    /\ pc' = [pc EXCEPT ![t] = "idle"]
    /\ op' = [op EXCEPT ![t] = NoOp]
    /\ openSeen' = IF openPc \in {"path", "size"}
                   THEN openSeen \cup {CacheState(ApplySetter(cfg, op[t]))}
                   ELSE openSeen
    /\ UNCHANGED <<serial, lastGet, offCfg>>

\* A getter starts: self.0.lock().unwrap()
GetterLock(t, g) ==
    /\ pc[t] = "idle"
    /\ CanLock(lock)
    /\ lock' = t
    /\ pc' = [pc EXCEPT ![t] = "reading"]
    /\ op' = [op EXCEPT ![t] = g]
    /\ UNCHANGED <<cfg, serial, lastGet, openSeen, offCfg>>

\* The getter copies the field out and drops the guard.
GetterReturn(t) ==
    /\ pc[t] = "reading"
    /\ lastGet' = [fn |-> op[t].fn, value |-> cfg[op[t].field],
                   torn |-> op[t].field \in cfg.torn,
                   serial |-> serial[op[t].field]]
    /\ lock' = 0
    /\ pc' = [pc EXCEPT ![t] = "idle"]
    /\ op' = [op EXCEPT ![t] = NoOp]
    /\ UNCHANGED <<cfg, serial, openSeen, offCfg>>

\* One configuration, not yet shared with a handle, and its threads.
InitCfg ==
    /\ CfgIdle
    /\ DbgIdle
    /\ OpenIdle
    /\ DescIdle
    /\ cells = [c \in CellIds |->
                  IF c = 1 THEN [FreeCell EXCEPT !.state = "live", !.rc = MaxThreads]
                  ELSE FreeCell]
    /\ optRefs = [k \in OptKinds |->
                    IF k = [cell |-> 1, origin |-> 1] THEN MaxThreads ELSE 0]
    /\ fs = NoFs
    /\ fsRefs = 0
    /\ lastNew = NoNew
    /\ inst = [i \in InstIds |-> NoInst]
    /\ lastOpen = NoOpen
    /\ lastClose = NoClose
    /\ alive = TRUE

NextCfg ==
    \/ \E t \in Threads, o \in SetterOps : SetterLock(t, o)
    \/ \E t \in Threads : SetterWrite(t)
    \/ \E t \in Threads : SetterReturn(t)
    \/ \E t \in Threads, g \in GetterOps : GetterLock(t, g)
    \/ \E t \in Threads : GetterReturn(t)

\* Threads on clones of one configuration.
SpecCfg == InitCfg /\ [][NextCfg]_vars

\* open_raw / open_cf_raw, first statement: cloud_fs.opts() read for the
\* persistent cache path, under the configuration's mutex, unwrap_or("").
OpenReadPath ==
    /\ openPc \in {"idle", "called"}
    /\ CanLock(lock)
    /\ openArgs' = [NoArgs EXCEPT !.path = UnwrapOr(cfg.path, "")]
    /\ openSeen' = {CacheState(cfg)}
    /\ openPc' = "path"
    /\ UNCHANGED <<cfgVars, lifeVars, instVars, descVars, dbgVars>>

\* second statement: cloud_fs.opts() read again, for the persistent cache
\* size, in a second acquisition of the mutex, unwrap_or(0).
OpenReadSize ==
    /\ openPc = "path"
    /\ CanLock(lock)
    /\ openArgs' = [openArgs EXCEPT !.size = UnwrapOr(cfg.size, 0)]
    /\ openPc' = "size"
    /\ UNCHANGED <<cfgVars, lifeVars, instVars, descVars, dbgVars, openSeen>>

\* the native open, with the two values read
OpenNativeCall ==
    /\ openPc = "size"
    /\ openPc' = "called"
    /\ UNCHANGED <<cfgVars, lifeVars, instVars, descVars, dbgVars, openArgs, openSeen>>

\* The setters of the persistent cache path and size.
CacheSetterOps == {o \in SetterOps : o.field \in {"path", "size"}}

\* A handle built from the configuration; the threads hold clones of the
\* configuration and one thread is to open an instance from the handle.
InitOpenCfg ==
    /\ CfgIdle
    /\ DbgIdle
    /\ OpenIdle
    /\ DescIdle
    /\ cells = [c \in CellIds |->
                  IF c = 1 THEN [FreeCell EXCEPT !.state = "live", !.rc = MaxThreads + 1]
                  ELSE FreeCell]
    /\ optRefs = [k \in OptKinds |->
                    IF k = [cell |-> 1, origin |-> 1] THEN MaxThreads ELSE 0]
    /\ fs = [state |-> "live", rc |-> 1, opts |-> [cell |-> 1, origin |-> 1],
             destroys |-> 0]
    /\ fsRefs = 1
    /\ lastNew = [NoNew EXCEPT !.result = "ok"]
    /\ inst = [i \in InstIds |-> NoInst]
    /\ lastOpen = NoOpen
    /\ lastClose = NoClose
    /\ alive = TRUE

NextOpenCfg ==
    \/ \E t \in Threads, o \in CacheSetterOps : SetterLock(t, o)
    \/ \E t \in Threads : SetterWrite(t)
    \/ \E t \in Threads : SetterReturn(t)
    \/ OpenReadPath
    \/ OpenReadSize
    \/ OpenNativeCall

\* open_raw / open_cf_raw in one thread, setters of the cache path and size
\* in the others.
SpecOpenCfg == InitOpenCfg /\ [][NextOpenCfg]_vars

FreeDescs == {v \in DescIds : dval[v] = 0}

\* impl Default: create the native resource, then read_from_env with the
\* default prefix; the value built first is dropped when that returns.
DescDefault ==
    /\ FreeDescs # {}
    /\ LET v == MinOf(FreeDescs)
           i == MinOf(FreeNats(dnat))
           r == read_from_env(kind, NatCreate(kind, dnat, i), i, DefaultPrefix(kind), env)
       IN /\ dnat' = DescDropNat(kind, r.nat, i)
          /\ dval' = [dval EXCEPT ![v] = r.id]
          /\ dexp' = [dexp EXCEPT ![v] =
                        IF r.status = "ok"
                        THEN EnvOverlay(kind, EmptyFields(kind), DefaultPrefix(kind), env)
                        ELSE @]
          /\ lastRead' = [status |-> r.status, prefix |-> DefaultPrefix(kind),
                          src |-> 0, dst |-> IF r.status = "ok" THEN v ELSE 0]
    /\ UNCHANGED <<kind, env, offDesc>>

\* d.clone()
DescCloneValue(v) ==
    /\ dval[v] # 0
    /\ FreeDescs # {}
    /\ LET w == MinOf(FreeDescs)
           cl == DescClone(kind, dnat, dval[v])
       IN /\ dnat' = cl.nat
          /\ dval' = [dval EXCEPT ![w] = cl.id]
          /\ dexp' = [dexp EXCEPT ![w] = dexp[v]]
    /\ UNCHANGED <<kind, env, lastRead, offDesc>>

\* d.set_bucket_name(..), d.set_region(..), d.set_object_path(..),
\* d.set_broker_list(..)
DescSetField(v, f, x) ==
    /\ dval[v] # 0
    /\ f \in Fields(kind)
    /\ dnat' = DescSet(dnat, dval[v], f, x)
    /\ dexp' = [dexp EXCEPT ![v][f] = x]
    /\ UNCHANGED <<kind, env, dval, lastRead, offDesc>>

\* d.read_from_env(prefix)
DescReadFromEnv(v, prefix) ==
    /\ dval[v] # 0
    /\ FreeDescs # {}
    /\ LET w == MinOf(FreeDescs)
           r == read_from_env(kind, dnat, dval[v], prefix, env)
       IN /\ dnat' = r.nat
          /\ dval' = [dval EXCEPT ![w] = r.id]
          /\ dexp' = [dexp EXCEPT ![w] =
                        IF r.status = "ok" THEN EnvOverlay(kind, dexp[v], prefix, env)
                        ELSE @]
          /\ lastRead' = [status |-> r.status, prefix |-> prefix, src |-> v,
                          dst |-> IF r.status = "ok" THEN w ELSE 0]
    /\ UNCHANGED <<kind, env, offDesc>>

\* a descriptor value goes out of scope
DescDrop(v) ==
    /\ dval[v] # 0
    /\ dnat' = DescDropNat(kind, dnat, dval[v])
    /\ dval' = [dval EXCEPT ![v] = 0]
    /\ dexp' = [dexp EXCEPT ![v] = EmptyFields(kind)]
    /\ lastRead' = IF v \in {lastRead.src, lastRead.dst} THEN NoRead ELSE lastRead
    /\ UNCHANGED <<kind, env, offDesc>>

\* The parts that SpecDesc and SpecEnv leave alone.
OffDescIdle ==
    /\ CfgIdle
    /\ DbgIdle
    /\ OpenIdle
    /\ cells = [c \in CellIds |-> FreeCell]
    /\ optRefs = [k \in OptKinds |-> 0]
    /\ fs = NoFs
    /\ fsRefs = 0
    /\ lastNew = NoNew
    /\ inst = [i \in InstIds |-> NoInst]
    /\ lastOpen = NoOpen
    /\ lastClose = NoClose
    /\ alive = TRUE

\* The environments of SpecDesc: empty, or one variable of a default prefix.
DescEnvs ==
    {<<>>,
     <<[key |-> EnvKey(BUCKET_DEFAULT_ENV_PREFIX, "region"), value |-> "e"]>>,
     <<[key |-> EnvKey(KAFKA_DEFAULT_ENV_PREFIX, "broker_list"), value |-> "e"]>>}

InitDesc ==
    /\ OffDescIdle
    /\ kind \in Kinds
    /\ env \in DescEnvs
    /\ dnat = [i \in NatIds |-> FreeNat(kind)]
    /\ dval = [v \in DescIds |-> 0]
    /\ dexp = [v \in DescIds |-> EmptyFields(kind)]
    /\ lastRead = NoRead

NextDesc ==
    \/ DescDefault
    \/ \E v \in DescIds : DescCloneValue(v)
    \/ \E v \in DescIds, f \in Fields(kind), x \in SetterArgs : DescSetField(v, f, x)
    \/ \E v \in DescIds : DescReadFromEnv(v, DefaultPrefix(kind))
    \/ \E v \in DescIds : DescDrop(v)

\* Descriptors of one kind.
SpecDesc == InitDesc /\ [][NextDesc]_vars

\* One Bucket Descriptor with any contents, in any environment.
InitEnv ==
    /\ OffDescIdle
    /\ kind = "bucket"
    /\ env \in Envs
    /\ \E d \in [Fields("bucket") -> {"", "d"}] :
          /\ dnat = [i \in NatIds |->
                       IF i = 1 THEN [state |-> "live", rc |-> 1, f |-> d]
                       ELSE FreeNat("bucket")]
          /\ dexp = [v \in DescIds |-> IF v = 1 THEN d ELSE EmptyFields("bucket")]
    /\ dval = [v \in DescIds |-> IF v = 1 THEN 1 ELSE 0]
    /\ lastRead = NoRead

NextEnv ==
    \/ \E prefix \in EnvPrefixes : DescReadFromEnv(1, prefix)
    \/ \E v \in DescIds \ {1} : DescDrop(v)

\* read_from_env over the environments.
SpecEnv == InitEnv /\ [][NextEnv]_vars

\* The pieces of the strings given to parse: every known name, the empty
\* piece, a name that is not known, and a known name in another case.
ParseTokens ==
    {as_str(c) : c \in KafkaDebugContext}
        \cup {<<>>, <<"u", "n", "k", "n", "o", "w", "n">>, <<"B", "r", "o", "k", "e", "r">>}
TokenLists == UNION {[1..n -> ParseTokens] : n \in 1..MaxTokens}
ContextLists == UNION {[1..n -> KafkaDebugContext] : n \in 0..MaxContexts}

\* KafkaDebugContext::parse(s), s the pieces of toks joined by commas
KafkaParse(toks) ==
    /\ LET r == parse(Join(toks))
       IN lastParse' = [status |-> r.status, of |-> "caller", tokens |-> toks,
                        contexts |-> <<>>, value |-> r.value, token |-> r.token]
    /\ UNCHANGED <<lastSetDebug, offDbg>>

\* kafka.set_debug(&contexts); the string it wrote has not been parsed yet
SetDebug(contexts) ==
    /\ lastSetDebug' = [called |-> TRUE, contexts |-> contexts, sent |-> set_debug(contexts)]
    /\ lastParse' = NoParse
    /\ UNCHANGED offDbg

\* KafkaDebugContext::parse of the string the last set_debug serialized
ParseDebug ==
    /\ lastSetDebug.called
    /\ LET r == parse(lastSetDebug.sent)
       IN lastParse' = [status |-> r.status, of |-> "set_debug", tokens |-> <<>>,
                        contexts |-> lastSetDebug.contexts, value |-> r.value,
                        token |-> r.token]
    /\ UNCHANGED <<lastSetDebug, offDbg>>

\* Nothing constructed; parse and set_debug need no state.
InitKafka ==
    /\ OffDescIdle
    /\ DescIdle

NextParse == \E toks \in TokenLists : KafkaParse(toks)

\* parse over the strings of TokenLists.
SpecParse == InitKafka /\ [][NextParse]_vars

NextKafka ==
    \/ \E contexts \in ContextLists : SetDebug(contexts)
    \/ ParseDebug

\* set_debug, and parse of the string set_debug wrote.
SpecKafka == InitKafka /\ [][NextKafka]_vars

\* ------------------------------------------------------------------ claims
FullClose ==
    <<"rocksdb_flush", "rocksdb_optimistictransactiondb_close_base_db",
      "rocksdb_cloud_otxn_close">>

\* C1: a close() that returns Ok made exactly three native calls, in this
\* order: a flush that succeeded, the close of the base handle, the close of
\* the cloud handle; each handle was released once by that call.
C1_CloseOrder ==
    lastClose.result = "ok" =>
        /\ lastClose.flush = "ok"
        /\ lastClose.calls = FullClose
        /\ inst[lastClose.inst].baseReleases = lastClose.before.baseReleases + 1
        /\ inst[lastClose.inst].dbReleases = lastClose.before.dbReleases + 1

C1_Witness == lastClose.result = "ok" /\ lastClose.before.baseReleases = 0

\* C2: a close() whose flush fails returns the error after the flush alone:
\* it closes neither handle, so handles that were open are still open; and a
\* later close() whose flush succeeds runs the full sequence.
C2_FlushFailureStops ==
    /\ lastClose.result = "err" =>
          /\ lastClose.flush = "err"
          /\ lastClose.calls = <<"rocksdb_flush">>
          /\ inst[lastClose.inst].baseReleases = lastClose.before.baseReleases
          /\ inst[lastClose.inst].dbReleases = lastClose.before.dbReleases
    /\ (lastClose.result = "ok" /\ lastClose.priorFails > 0) =>
          lastClose.calls = FullClose

C2_Witness ==
    /\ lastClose.result = "ok"
    /\ lastClose.priorFails > 0
    /\ lastClose.before.baseReleases = 0
    /\ lastClose.before.dbReleases = 0

\* C3: over any sequence of close() calls on one instance the base handle
\* and the cloud handle are each released at most once, and no flush is
\* issued on a base handle that was already released.
C3_ReleasedAtMostOnce ==
    \A i \in InstIds :
        /\ inst[i].baseReleases <= 1
        /\ inst[i].dbReleases <= 1
        /\ inst[i].staleFlushes = 0

\* The values holding the handle: the caller's CloudFileSystem values and
\* the _cloud_fs field of every instance that has not been dropped.
FsHolders ==
    fsRefs + Cardinality({i \in InstIds : inst[i].state = "live"})

\* C4: rocksdb_cloud_fs_destroy never runs while a CloudFileSystem clone or
\* an instance opened from the handle exists; it runs exactly once, when the
\* last of them has been dropped.
C4_FsOutlivesHolders ==
    /\ fs.destroys <= 1
    /\ FsHolders > 0 => (fs.state = "live" /\ fs.destroys = 0)
    /\ (fs.state # "none" /\ FsHolders = 0) => (fs.state = "destroyed" /\ fs.destroys = 1)

C4_Witness ==
    /\ fs.destroys = 1
    /\ \A i \in InstIds : inst[i].state = "dropped"

\* C5: when the native open returned a database resource and open then
\* returns an error, open has closed that resource exactly once.
C5_FailedOpenReleases ==
    (lastOpen.result = "err" /\ lastOpen.db) => lastOpen.dbCloses = 1

\* The values holding configuration cell c: the caller's, and the opts
\* field of the handle.
OptHolders(c) ==
    SumOver(optRefs, {k \in OptKinds : k.cell = c})
        + (IF fs.state = "live" /\ fs.opts.cell = c THEN 1 ELSE 0)

\* C7: the getters of handle.opts() return what the getters of the
\* configuration the handle was built from return, and of every clone of it,
\* whatever setters were called; the native options resource is destroyed
\* exactly once, when the last value sharing it has been dropped.
C7_HandleSharesConfiguration ==
    /\ fs.state = "live" =>
          \A k \in OptKinds :
              (optRefs[k] > 0 /\ k.origin = fs.opts.origin) =>
                  /\ persistent_cache_path(cells, fs.opts) = persistent_cache_path(cells, k)
                  /\ persistent_cache_size_gb(cells, fs.opts)
                        = persistent_cache_size_gb(cells, k)
                  /\ log_level(cells, fs.opts) = log_level(cells, k)
    /\ \A c \in CellIds :
          /\ cells[c].destroys <= 1
          /\ OptHolders(c) > 0 => (cells[c].state = "live" /\ cells[c].destroys = 0)
          /\ (cells[c].state # "free" /\ OptHolders(c) = 0) => cells[c].destroys = 1

C7_Witness ==
    /\ fs.state = "live"
    /\ lastNew.setAfter
    /\ persistent_cache_path(cells, fs.opts) # None
    /\ \E k \in OptKinds : optRefs[k] > 1 /\ k.origin = fs.opts.origin

\* C6: setters called from several threads on clones of one configuration
\* leave it in the state that applying them one after another, in the order
\* they took the mutex, leaves; a thread holds the mutex from the start of its
\* call to the end of its write, and no getter returns a half-written field.
C6_SettersSerialize ==
    /\ \A t \in Threads : pc[t] # "idle" => lock = t
    /\ (\A t \in Threads : pc[t] \notin {"locked", "writing"}) => cfg = serial
    /\ ~lastGet.torn
    /\ lastGet.fn # "none" => lastGet.value = lastGet.serial

C6_Witness ==
    /\ \E t \in Threads : pc[t] = "writing" /\ op[t].field \in cfg.torn
    /\ cfg.src # None /\ cfg.kafka # None /\ cfg.keep
    /\ lastGet.fn = "persistent_cache_path" /\ lastGet.value # None

\* C10: the source and destination buckets a configuration holds are valid
\* descriptors: set_src_bucket and set_dst_bucket install a descriptor only
\* when its is_valid() is true.
C10_OnlyValidBucketsInstalled ==
    \A f \in {"src", "dst"} : cfg[f] # None => is_valid(cfg[f][1])

\* C8: for both descriptor kinds a clone is independent of the descriptor it
\* was cloned from: the getters of every value return what they returned
\* after the last call made on that value itself, whatever was set since
\* on its clones or on the values it was cloned from (read_from_env's
\* internal clone included).
C8_CloneIndependent ==
    \A v \in DescIds : dval[v] # 0 => DescGet(dnat, dval[v]) = dexp[v]

\* C9: read_from_env(P) on a Bucket Descriptor D returns a new descriptor
\* whose fields are the values of <P>_BUCKET_NAME, <P>_REGION and
\* <P>_OBJECT_PATH where set and D's values elsewhere, whatever else the
\* environment holds and in whatever order; D is left as it was.
C9_ReadFromEnv ==
    lastRead.status # "none" =>
        /\ lastRead.status = "ok"
        /\ lastRead.dst # lastRead.src
        /\ DescGet(dnat, dval[lastRead.dst])
              = EnvOverlay("bucket", dexp[lastRead.src], lastRead.prefix, env)
        /\ DescGet(dnat, dval[lastRead.src]) = dexp[lastRead.src]

\* C11: parse of a string whose pieces are all known names returns their
\* variants in input order; parse of a string with a piece that is not a
\* known name (the empty piece included) returns a recoverable error and
\* does not panic.
C11_ParseRecoverable ==
    lastParse.of = "caller" =>
        IF \A k \in 1..Len(lastParse.tokens) :
              \E c \in KafkaDebugContext : as_str(c) = lastParse.tokens[k]
        THEN /\ lastParse.status = "ok"
             /\ Len(lastParse.value) = Len(lastParse.tokens)
             /\ \A k \in 1..Len(lastParse.tokens) :
                    as_str(lastParse.value[k]) = lastParse.tokens[k]
        ELSE lastParse.status = "err"

\* C13: for every list of contexts, the empty list included, parse of the
\* string set_debug serializes succeeds and returns the same set of contexts.
C13_SetDebugRoundTrip ==
    lastParse.of = "set_debug" =>
        /\ lastParse.status = "ok"
        /\ {lastParse.value[k] : k \in 1..Len(lastParse.value)}
              = {lastParse.contexts[k] : k \in 1..Len(lastParse.contexts)}

\* C12: when the native create call reports an error, CloudFileSystem::new
\* returns an error carrying the native message unchanged, and no handle
\* exists: nothing was constructed and nothing is destroyed for it.
C12_NewErrorCarriesNativeMessage ==
    lastNew.result = "err" =>
        /\ lastNew.error = lastNew.native
        /\ fs.state = "none"
        /\ fs.destroys = 0
        /\ fsRefs = 0

\* The errors open returns before it reaches a native open.
PreCallErrors ==
    {"Failed to convert path to CString", "Failed to create RocksDB directory"}

C15_OpenReadsOneState ==
    openPc = "called" =>
        \E st \in openSeen :
            /\ openArgs.path = UnwrapOr(st.path, "")
            /\ openArgs.size = UnwrapOr(st.size, 0)

====
